---- MODULE Spec2Model ----
(***************************************************************************)
(* selscrape: headless X server + Selenium server + client, with scoped   *)
(* cleanup (with_proc / with_selenium), bounded collision retry            *)
(* (start_headless_x / start_selenium_server) and the thread-per-stream    *)
(* MergedStream used to watch the Selenium server's stdout and stderr.     *)
(*                                                                         *)
(* Two specifications share the MergedStream actions:                      *)
(*   SpecMS  a MergedStream over up to NumStreams streams read by one      *)
(*           consumer that keeps calling readline();                       *)
(*   Spec    one with_selenium(...) call, or one                           *)
(*           with_proc(start_headless_x, display) call (test.py:33), on    *)
(*           the caller's thread, plus the background threads it starts.   *)
(***************************************************************************)
EXTENDS Integers, Sequences, FiniteSets, TLC

\* ---- bounds -------------------------------------------------------------
NumStreams == 2     \* SpecMS: streams handed to MergedStream(*streams)
MaxLines == 3       \* SpecMS: total number of lines written to the streams
MaxEndReads == 2    \* SpecMS: readline() calls that returned '' before the consumer stops
MaxOutput == 1      \* Spec: lines a spawned Selenium server writes to stdout and stderr together
NumDisplays == 2    \* Spec: size of the display pool of pick_random_display
NumPorts == 2       \* Spec: size of the port pool of pick_random_port

\* ---- program constants --------------------------------------------------
MaxAttempts == 10   \* range(10) of the three retry loops

None == 0
\* time.sleep(2) after a failed sel.start()
Backoff == 2
NoRet == "<loop>"   \* readline() has not returned yet (its while loop goes round)
EndMarker == ""     \* the '' readline() returns at end of data

StreamIds == 1 .. NumStreams
stdout == 1         \* sel_server.stdout
stderr == 2         \* sel_server.stderr
Displays == 1 .. NumDisplays
Ports == 1 .. NumPorts

\* Lines are classified by the substrings the launcher looks for.
\*   "ready": contains 'Started SocketListener on'
\*   "coll" : contains 'Selenium is already running on port'
\*   "other": any other non-empty line
Lines == {"other", "ready", "coll"}
\* SpecMS writes lines of two kinds: enough to tell a line from another one.
MSLines == {"other", "ready"}

VARIABLES
    \* -- streams and MergedStream
    written,    \* ghost: [StreamIds -> Seq(Lines)], everything the writer puts on a stream
    pending,    \* [StreamIds -> Seq(Lines)], written (or to be written) and not yet read
    wopen,      \* [StreamIds -> BOOLEAN], the writer still holds the stream open
    tpc,        \* [StreamIds -> {"none","run","done"}], the stream_pusher thread of a stream
    q,          \* self.q, the Queue: Seq of items
    streams,    \* self.streams, a list of stream ids
    out,        \* SpecMS: the results of the consumer's readline() calls, in order
    outFrom,    \* ghost, SpecMS: the stream each result in out was read from (None for '')
    \* -- the caller's thread
    pc,         \* position of the caller's thread
    display,    \* the display argument of start_headless_x (None: pick_random_display)
    exc,        \* the exception propagating on the caller's thread, or "none"
    entered,    \* ghost: the scopes whose body was reached, subset of {"X","S","body"}
    events,     \* ghost: teardown events in order
    \* -- environment
    occDisplays, \* displays held by a foreign X server (pool members are
                 \* interchangeable: the first n of the pool)
    occPorts,    \* ports held by a foreign listener (likewise)
    jar,         \* 'SELENIUM_SERVER_JAR' in os.environ
    \* -- launchers; k in {"X","S"}: display server, Selenium server
    attempt,    \* [Kinds -> Nat], completed iterations of the launcher's for loop
    spawned,    \* ghost: [Kinds -> Nat], Popen calls of the current launcher call
    proc,       \* [Kinds -> ProcStates], the process of the launcher's latest Popen
    orphans,    \* ghost: processes dropped by a launcher while not yet reaped
    attr,       \* [Kinds -> Nat], headless_x.display / sel_server.port of the latest Popen
    bound,      \* ghost: [Kinds -> Nat], the display/port on the latest Popen's command line
    tried,      \* ghost: [Kinds -> SUBSET Nat], displays/ports that collided in this call
    xlog,       \* [{"stderr","stdout"} -> {"none","run","done"}], log_output threads of X
    slog,       \* {"none","run","done"}, the log_output(merged_stream) thread
    eofFail,    \* ghost: wait_for_selenium_start raised on '' (0, or spawned["S"] then)
    cAttempt,   \* completed iterations of start_selenium's for loop
    sleeps,     \* ghost: seconds slept by start_selenium's time.sleep(2) calls
    \* -- Spec2: with_selenium sessions that run side by side on one machine
    sessions    \* [SessionIds -> the state of one with_selenium call]

msvars == <<written, pending, wopen, tpc, q, streams>>
envvars == <<occDisplays, occPorts, jar>>
sesvars == <<pc, display, exc, entered, events, attempt, spawned, proc, orphans,
             attr, bound, tried, xlog, slog, eofFail, cAttempt, sleeps>>
vars == <<msvars, out, outFrom, envvars, sessions, sesvars>>

Kinds == {"X", "S"}
ProcStates == {"unspawned", "running", "exited", "reaped"}

\* ---- helpers ------------------------------------------------------------
RECURSIVE SeqsUpTo(_, _)
SeqsUpTo(S, n) ==
    IF n = 0 THEN {<<>>}
    ELSE SeqsUpTo(S, n - 1) \cup {Append(s, x) : s \in SeqsUpTo(S, n - 1), x \in S}

RECURSIVE SumLen(_, _)
SumLen(f, S) ==
    IF S = {} THEN 0
    ELSE LET i == CHOOSE j \in S : TRUE IN Len(f[i]) + SumLen(f, S \ {i})

Count(s, v) == Cardinality({i \in DOMAIN s : s[i] = v})

\* list.remove(x): drop the first occurrence of x
Remove(s, x) ==
    IF \E i \in DOMAIN s : s[i] = x
    THEN LET i == CHOOSE j \in DOMAIN s : s[j] = x /\ \A k \in 1 .. (j - 1) : s[k] # x
         IN SubSeq(s, 1, i - 1) \o SubSeq(s, i + 1, Len(s))
    ELSE s

Range(s) == {s[i] : i \in DOMAIN s}

\* ---- MergedStream -------------------------------------------------------
\* Queue items: a line, or Close(stream).  "stream" on a line item is a ghost tag.
Close(stream) == [close |-> TRUE, stream |-> stream, line |-> EndMarker]
LineItem(stream, line) == [close |-> FALSE, stream |-> stream, line |-> line]

\* MergedStream.__init__: self.streams, one started stream_pusher per stream, empty q.
MergedStream_streams(ss) == ss
MergedStream_threads(ss) == [i \in StreamIds |-> IF i \in Range(ss) THEN "run" ELSE "none"]

\* One iteration of stream_pusher's loop for stream i: a blocking stream.readline()
\* and the q.put of what it returned.
stream_pusher_drop(i) ==
    /\ tpc[i] = "run"
    /\ \/ /\ pending[i] # <<>>
          /\ q' = (IF Len(pending[i]) = 1 THEN q
                   ELSE Append(q, LineItem(i, Head(pending[i]))))
          /\ pending' = [pending EXCEPT ![i] = Tail(@)]
          /\ UNCHANGED tpc
       \/ /\ pending[i] = <<>> /\ ~wopen[i]
          /\ q' = Append(q, Close(i))
          /\ tpc' = [tpc EXCEPT ![i] = "done"]
          /\ UNCHANGED pending
    /\ UNCHANGED <<written, wopen, streams>>

stream_pusher_silent(i) ==
    /\ tpc[i] = "run"
    /\ \/ /\ pending[i] # <<>>
          /\ q' = Append(q, LineItem(i, Head(pending[i])))
          /\ pending' = [pending EXCEPT ![i] = Tail(@)]
          /\ UNCHANGED tpc
       \/ /\ pending[i] = <<>> /\ ~wopen[i]
          /\ tpc' = [tpc EXCEPT ![i] = "done"]
          /\ UNCHANGED <<pending, q>>
    /\ UNCHANGED <<written, wopen, streams>>

stream_pusher(i) ==
    /\ tpc[i] = "run"
    /\ \/ /\ pending[i] # <<>>
          /\ q' = Append(q, LineItem(i, Head(pending[i])))
          /\ pending' = [pending EXCEPT ![i] = Tail(@)]
          /\ UNCHANGED tpc
       \/ /\ pending[i] = <<>> /\ ~wopen[i]
          /\ q' = Append(q, Close(i))
          /\ tpc' = [tpc EXCEPT ![i] = "done"]
          /\ UNCHANGED pending
    /\ UNCHANGED <<written, wopen, streams>>

\* One iteration of readline's while loop; ret is what the call returns in this
\* iteration, NoRet when the loop goes round (a Close was dequeued).  Blocks in
\* q.get() while the queue is empty and self.streams is not.
readline_pop_first(ret) ==
    \/ /\ streams = <<>>
       /\ ret = EndMarker
       /\ UNCHANGED <<q, streams>>
    \/ /\ streams # <<>>
       /\ q # <<>>
       /\ q' = Tail(q)
       /\ IF Head(q).close
          THEN /\ streams' = Tail(streams)
               /\ ret = NoRet
          ELSE /\ ret = Head(q).line
               /\ UNCHANGED streams

readline_nonblocking(ret) ==
    \/ /\ (streams = <<>> \/ q = <<>>)
       /\ ret = EndMarker
       /\ UNCHANGED <<q, streams>>
    \/ /\ streams # <<>>
       /\ q # <<>>
       /\ q' = Tail(q)
       /\ IF Head(q).close
          THEN /\ streams' = Remove(streams, Head(q).stream)
               /\ ret = NoRet
          ELSE /\ ret = Head(q).line
               /\ UNCHANGED streams

readline_lifo(ret) ==
    \/ /\ streams = <<>>
       /\ ret = EndMarker
       /\ UNCHANGED <<q, streams>>
    \/ /\ streams # <<>>
       /\ q # <<>>
       /\ q' = SubSeq(q, 1, Len(q) - 1)
       /\ IF q[Len(q)].close
          THEN /\ streams' = Remove(streams, q[Len(q)].stream)
               /\ ret = NoRet
          ELSE /\ ret = q[Len(q)].line
               /\ UNCHANGED streams

readline(ret) ==
    \/ /\ streams = <<>>
       /\ ret = EndMarker
       /\ UNCHANGED <<q, streams>>
    \/ /\ streams # <<>>
       /\ q # <<>>
       /\ q' = Tail(q)
       /\ IF Head(q).close
          THEN /\ streams' = Remove(streams, Head(q).stream)
               /\ ret = NoRet
          ELSE /\ ret = Head(q).line
               /\ UNCHANGED streams

Rets == Lines \cup {EndMarker, NoRet}

\* ---- SpecMS: a MergedStream and one consumer ----------------------------
\* The writer of stream i closes it (after everything in written[i]).
WriterClose(i) ==
    /\ pc = "ms"
    /\ wopen[i]
    /\ wopen' = [wopen EXCEPT ![i] = FALSE]
    /\ UNCHANGED <<written, pending, tpc, q, streams, out, outFrom, envvars, sessions, sesvars>>

Pusher(i) ==
    /\ stream_pusher(i)
    /\ UNCHANGED <<out, outFrom, envvars, sessions, sesvars>>

\* The consumer calls readline() again and again and records what it returns.
Consumer ==
    /\ pc = "ms"
    /\ Count(out, EndMarker) < MaxEndReads
    /\ \E ret \in Rets :
        /\ readline(ret)
        /\ out' = (IF ret = NoRet THEN out ELSE Append(out, ret))
        /\ outFrom' = (IF ret = NoRet THEN outFrom
                       ELSE Append(outFrom, IF ret = EndMarker THEN None
                                            ELSE Head(q).stream))
    /\ UNCHANGED <<written, pending, wopen, tpc, envvars, sessions, sesvars>>

SesIdle ==
    /\ display = None /\ exc = "none" /\ entered = {} /\ events = <<>>
    /\ attempt = [k \in Kinds |-> 0]
    /\ spawned = [k \in Kinds |-> 0]
    /\ proc = [k \in Kinds |-> "unspawned"]
    /\ orphans = 0
    /\ attr = [k \in Kinds |-> None]
    /\ bound = [k \in Kinds |-> None]
    /\ tried = [k \in Kinds |-> {}]
    /\ xlog = [s \in {"stderr", "stdout"} |-> "none"]
    /\ slog = "none"
    /\ eofFail = 0
    /\ cAttempt = 0
    /\ sleeps = 0

InitMS ==
    /\ pc = "ms"
    /\ \E m \in 0 .. NumStreams :
        /\ streams = MergedStream_streams([i \in 1 .. m |-> i])
        /\ tpc = MergedStream_threads([i \in 1 .. m |-> i])
        /\ written \in {w \in [StreamIds -> SeqsUpTo(MSLines, MaxLines)] :
                          /\ SumLen(w, StreamIds) <= MaxLines
                          /\ \A i \in StreamIds : i > m => w[i] = <<>>}
    /\ pending = written
    /\ wopen = [i \in StreamIds |-> TRUE]
    /\ q = <<>>
    /\ out = <<>>
    /\ outFrom = <<>>
    /\ sessions = <<>>
    /\ occDisplays = {} /\ occPorts = {} /\ jar = TRUE
    /\ SesIdle

NextMS ==
    \/ \E i \in StreamIds : WriterClose(i)
    \/ \E i \in StreamIds : Pusher(i)
    \/ Consumer

SpecMS == InitMS /\ [][NextMS]_vars

\* ---- Spec: one session on the caller's thread ---------------------------
\* for _ in range(10): the loop body runs while n iterations are complete, n < 10.
LoopRuns_offbyone(n) == n <= MaxAttempts

LoopRuns(n) == n < MaxAttempts

\* pick_random_display() / pick_random_port(): any member of the pool.
pick_random_display == Displays
pick_random_port == Ports

\* chosen_display = display if display else pick_random_display()
chosen_display(d) == IF d # None THEN {d} ELSE pick_random_display

\* What start_headless_x does after the grace period: exited is
\* "headless_x.poll() is not None", active is "'Server is already active' in error".
x_outcome_nopoll(exited, active) == "return"

x_outcome(exited, active) ==
    IF exited THEN (IF active THEN "retry" ELSE "raise") ELSE "return"

\* The pc after the scope of with_proc(k) has been left: the Selenium server's
\* scope is nested in the display server's.
AfterScope(k) == IF k = "S" THEN "kill_X" ELSE "done"

\* A Popen whose object replaces the launcher's previous one.
Dropped(k) == IF proc[k] \in {"running", "exited"} THEN 1 ELSE 0

\* One iteration of start_headless_x's loop (or its else clause).  The display
\* server on an occupied display exits with 'Server is already active' within the
\* grace period; on any display it may also crash for another reason.
start_headless_x ==
    /\ pc = "x_loop"
    /\ IF LoopRuns(attempt["X"])
       THEN \E d \in chosen_display(display), crashed \in BOOLEAN :
              LET active == d \in occDisplays
                  exited == active \/ crashed
                  o == x_outcome(exited, active)
              IN /\ spawned' = [spawned EXCEPT !["X"] = @ + 1]
                 /\ orphans' = orphans + Dropped("X")
                 /\ bound' = [bound EXCEPT !["X"] = d]
                 /\ attr' = [attr EXCEPT !["X"] = d]
                 /\ proc' = [proc EXCEPT !["X"] =
                                IF o = "return"
                                THEN (IF exited THEN "exited" ELSE "running")
                                ELSE "reaped"]
                 /\ tried' = [tried EXCEPT !["X"] = IF o = "retry" THEN @ \cup {d} ELSE @]
                 /\ attempt' = [attempt EXCEPT !["X"] = IF o = "retry" THEN @ + 1 ELSE @]
                 /\ exc' = (IF o = "raise" THEN "StartupFailure" ELSE exc)
                 /\ xlog' = (IF o = "return"
                             THEN [s \in {"stderr", "stdout"} |-> "run"] ELSE xlog)
                 /\ pc' = (CASE o = "retry" -> "x_loop"
                             [] o = "raise" -> "done"
                             [] o = "return" -> "x_ret")
       ELSE /\ exc' = "RetryExhausted"
            /\ pc' = "done"
            /\ UNCHANGED <<spawned, orphans, bound, attr, proc, tried, attempt, xlog>>
    /\ UNCHANGED <<msvars, out, outFrom, envvars, sessions, display, entered, events, slog, eofFail,
                   cAttempt, sleeps>>

\* with_proc: p = spawn(*args) has returned; the try block yields p.  The
\* launcher's frame (its loop counter) is gone, and the ghosts that describe the
\* launcher's call are cleared with it.
with_proc_enter(k) ==
    /\ pc = (IF k = "X" THEN "x_ret" ELSE "sel_ret")
    /\ entered' = entered \cup {k}
    /\ attempt' = [attempt EXCEPT ![k] = 0]
    /\ spawned' = [spawned EXCEPT ![k] = 0]
    /\ tried' = [tried EXCEPT ![k] = {}]
    /\ bound' = [bound EXCEPT ![k] = None]
    /\ written' = [i \in StreamIds |-> <<>>]
    /\ pc' = (IF k = "S" THEN "cli_loop" ELSE IF display = None THEN "sel_loop" ELSE "body")
    /\ UNCHANGED <<pending, wopen, tpc, q, streams, out, outFrom, envvars, sessions, display, exc, events,
                   proc, orphans, attr, xlog, slog, eofFail, cAttempt, sleeps>>

\* What a Selenium server started on the port may write to stdout and stderr: it
\* reports 'already running' only on an occupied port and 'Started SocketListener'
\* only on a free one.
ServerOutputs(port) ==
    {w \in [StreamIds -> SeqsUpTo(Lines, MaxOutput)] :
        /\ SumLen(w, StreamIds) <= MaxOutput
        /\ \A i \in StreamIds \ {stdout, stderr} : w[i] = <<>>
        /\ \A i \in StreamIds :
            /\ "ready" \in Range(w[i]) => port \notin occPorts
            /\ "coll" \in Range(w[i]) => port \in occPorts}

\* sel_server.port = port
handle_port_stale(port) == IF tried["S"] # {} THEN CHOOSE p \in tried["S"] : TRUE ELSE port

handle_port_default(port) == CHOOSE p \in Ports : \A r \in Ports : p <= r

handle_port(port) == port

\* SELENIUM_SERVER_JAR = os.environ['SELENIUM_SERVER_JAR'], the statement before
\* the Popen call, raises KeyError when the variable is absent.
environ_jar_default == FALSE

environ_jar_raises == ~jar

\* One iteration of start_selenium_server's loop up to the call of
\* wait_for_selenium_start and the MergedStream it builds (or the loop's else
\* clause).
start_selenium_server ==
    /\ pc = "sel_loop"
    /\ IF ~LoopRuns(attempt["S"])
       THEN /\ exc' = "RetryExhausted"
            /\ pc' = "kill_X"
            /\ UNCHANGED <<msvars, spawned, orphans, bound, attr, proc, slog>>
       ELSE IF environ_jar_raises
       THEN /\ exc' = "ConfigurationError"
            /\ pc' = "kill_X"
            /\ UNCHANGED <<msvars, spawned, orphans, bound, attr, proc, slog>>
       ELSE \E port \in pick_random_port :
             \E w \in ServerOutputs(port) :
                /\ spawned' = [spawned EXCEPT !["S"] = @ + 1]
                /\ orphans' = orphans + Dropped("S")
                /\ bound' = [bound EXCEPT !["S"] = port]
                /\ attr' = [attr EXCEPT !["S"] = handle_port(port)]
                /\ proc' = [proc EXCEPT !["S"] = "running"]
                /\ written' = w
                /\ pending' = w
                /\ wopen' = [i \in StreamIds |-> i \in {stdout, stderr}]
                /\ streams' = MergedStream_streams(<<stdout, stderr>>)
                /\ tpc' = MergedStream_threads(<<stdout, stderr>>)
                /\ q' = <<>>
                /\ slog' = "none"
                /\ pc' = "sel_wait"
                /\ UNCHANGED exc
    /\ UNCHANGED <<out, outFrom, envvars, sessions, display, entered, events, attempt, tried, xlog,
                   eofFail, cAttempt, sleeps>>

\* The branch wait_for_selenium_start takes on a line readline() returned.
classify_eof_retry(line) ==
    IF line = EndMarker THEN "retry"
    ELSE IF line = "ready" THEN "started"
    ELSE IF line = "coll" THEN "retry"
    ELSE "continue"

classify(line) ==
    IF line = EndMarker THEN "fail"
    ELSE IF line = "ready" THEN "started"
    ELSE IF line = "coll" THEN "retry"
    ELSE "continue"

\* One iteration of the readline loop inside wait_for_selenium_start's loop, and
\* the branch on the line once readline returns.
wait_for_selenium_start_noreturn ==
    /\ pc = "sel_wait"
    /\ \E ret \in Rets :
        /\ readline(ret)
        /\ LET o == IF ret = NoRet THEN "continue" ELSE classify(ret)
           IN /\ eofFail' = (IF ret = EndMarker THEN spawned["S"] ELSE eofFail)
              /\ exc' = (IF o = "fail" THEN "StartupFailure" ELSE exc)
              /\ slog' = (IF o \in {"started", "retry"} THEN "run" ELSE slog)
              /\ tried' = [tried EXCEPT !["S"] = IF o = "retry" THEN @ \cup {attr["S"]} ELSE @]
              /\ pc' = (CASE o = "fail" -> "kill_X"
                          [] o = "started" -> "sel_wait"
                          [] o = "retry" -> "sel_reap"
                          [] o = "continue" -> "sel_wait")
    /\ UNCHANGED <<written, pending, wopen, tpc, out, outFrom, envvars, sessions, display, entered, events,
                   attempt, spawned, proc, orphans, attr, bound, xlog, cAttempt, sleeps>>

wait_for_selenium_start ==
    /\ pc = "sel_wait"
    /\ \E ret \in Rets :
        /\ readline(ret)
        /\ LET o == IF ret = NoRet THEN "continue" ELSE classify(ret)
           IN /\ eofFail' = (IF ret = EndMarker THEN spawned["S"] ELSE eofFail)
              /\ exc' = (IF o = "fail" THEN "StartupFailure" ELSE exc)
              /\ slog' = (IF o \in {"started", "retry"} THEN "run" ELSE slog)
              /\ tried' = [tried EXCEPT !["S"] = IF o = "retry" THEN @ \cup {attr["S"]} ELSE @]
              /\ pc' = (CASE o = "fail" -> "kill_X"
                          [] o = "started" -> "sel_ret"
                          [] o = "retry" -> "sel_reap"
                          [] o = "continue" -> "sel_wait")
    /\ UNCHANGED <<written, pending, wopen, tpc, out, outFrom, envvars, sessions, display, entered, events,
                   attempt, spawned, proc, orphans, attr, bound, xlog, cAttempt, sleeps>>

\* sel_server.wait() after a collision, return False, and the loop's continue.
\* The MergedStream of the attempt goes out of scope with the return (its daemon
\* threads are left behind); only the MergedStream of the attempt in progress is
\* tracked.
wait_for_selenium_start_nowait ==
    /\ pc = "sel_reap"
    /\ attempt' = [attempt EXCEPT !["S"] = @ + 1]
    /\ written' = [i \in StreamIds |-> <<>>]
    /\ pending' = [i \in StreamIds |-> <<>>]
    /\ wopen' = [i \in StreamIds |-> FALSE]
    /\ tpc' = [i \in StreamIds |-> "none"]
    /\ q' = <<>>
    /\ streams' = <<>>
    /\ slog' = "none"
    /\ pc' = "sel_loop"
    /\ UNCHANGED <<out, outFrom, envvars, sessions, display, exc, entered, events, spawned, orphans,
                   attr, bound, tried, xlog, eofFail, cAttempt, sleeps, proc>>

wait_for_selenium_start_reap ==
    /\ pc = "sel_reap"
    /\ proc["S"] # "running"
    /\ proc' = [proc EXCEPT !["S"] = "reaped"]
    /\ attempt' = [attempt EXCEPT !["S"] = @ + 1]
    /\ written' = [i \in StreamIds |-> <<>>]
    /\ pending' = [i \in StreamIds |-> <<>>]
    /\ wopen' = [i \in StreamIds |-> FALSE]
    /\ tpc' = [i \in StreamIds |-> "none"]
    /\ q' = <<>>
    /\ streams' = <<>>
    /\ slog' = "none"
    /\ pc' = "sel_loop"
    /\ UNCHANGED <<out, outFrom, envvars, sessions, display, exc, entered, events, spawned, orphans,
                   attr, bound, tried, xlog, eofFail, cAttempt, sleeps>>

\* One iteration of start_selenium's loop (sel.start() succeeds or raises), or its
\* else clause.
start_selenium_nosleep ==
    /\ pc = "cli_loop"
    /\ IF LoopRuns(cAttempt)
       THEN \E ok \in BOOLEAN :
              IF ok
              THEN /\ pc' = "cli_ret"
                   /\ UNCHANGED <<cAttempt, sleeps, exc>>
              ELSE /\ cAttempt' = cAttempt + 1
                   /\ UNCHANGED <<pc, exc, sleeps>>
       ELSE /\ exc' = "ClientStartupError"
            /\ pc' = "kill_S"
            /\ UNCHANGED <<cAttempt, sleeps>>
    /\ UNCHANGED <<msvars, out, outFrom, envvars, sessions, display, entered, events, attempt, spawned, proc,
                   orphans, attr, bound, tried, xlog, slog, eofFail>>

start_selenium ==
    /\ pc = "cli_loop"
    /\ IF LoopRuns(cAttempt)
       THEN \E ok \in BOOLEAN :
              IF ok
              THEN /\ pc' = "cli_ret"
                   /\ UNCHANGED <<cAttempt, sleeps, exc>>
              ELSE /\ cAttempt' = cAttempt + 1
                   /\ sleeps' = sleeps + Backoff
                   /\ UNCHANGED <<pc, exc>>
       ELSE /\ exc' = "ClientStartupError"
            /\ pc' = "kill_S"
            /\ UNCHANGED <<cAttempt, sleeps>>
    /\ UNCHANGED <<msvars, out, outFrom, envvars, sessions, display, entered, events, attempt, spawned, proc,
                   orphans, attr, bound, tried, xlog, slog, eofFail>>

\* start_selenium has returned: sel.X = X, sel.selenium_server = server, and the
\* try block yields sel to the body.
with_selenium_yield ==
    /\ pc = "cli_ret"
    /\ entered' = entered \cup {"body"}
    /\ cAttempt' = 0
    /\ sleeps' = 0
    /\ pc' = "body"
    /\ UNCHANGED <<msvars, out, outFrom, envvars, sessions, display, exc, events, attempt, spawned, proc,
                   orphans, attr, bound, tried, xlog, slog, eofFail>>

\* The body of the with statement ends, normally or by raising.  In with_selenium
\* the yield is inside try/finally: sel.stop() comes next.
with_body_nofinally ==
    /\ pc = "body"
    /\ \E raises \in BOOLEAN :
        /\ exc' = (IF raises THEN "BodyError" ELSE exc)
        /\ pc' = (IF display # None THEN "kill_X" ELSE IF raises THEN "kill_S" ELSE "stop")
    /\ entered' = entered \cup {"body"}
    /\ UNCHANGED <<msvars, out, outFrom, envvars, sessions, display, events, attempt, spawned, proc, orphans,
                   attr, bound, tried, xlog, slog, eofFail, cAttempt, sleeps>>

with_body ==
    /\ pc = "body"
    /\ \E raises \in BOOLEAN :
        /\ exc' = (IF raises THEN "BodyError" ELSE exc)
        /\ pc' = (IF display = None THEN "stop" ELSE "kill_X")
    /\ entered' = entered \cup {"body"}
    /\ UNCHANGED <<msvars, out, outFrom, envvars, sessions, display, events, attempt, spawned, proc, orphans,
                   attr, bound, tried, xlog, slog, eofFail, cAttempt, sleeps>>

\* finally: sel.stop(), which may raise.
with_selenium_stop ==
    /\ pc = "stop"
    /\ events' = Append(events, <<"stop", "sel">>)
    /\ \E raises \in BOOLEAN : exc' = (IF raises THEN "StopError" ELSE exc)
    /\ pc' = "kill_S"
    /\ UNCHANGED <<msvars, out, outFrom, envvars, sessions, display, entered, attempt, spawned, proc, orphans,
                   attr, bound, tried, xlog, slog, eofFail, cAttempt, sleeps>>

\* A process that ends closes its ends of its output pipes.
StreamsAfterExit(k) == IF k = "S" THEN [i \in StreamIds |-> FALSE] ELSE wopen

\* with_proc's finally: try: p.kill(), which may raise; finally: p.wait() is next
\* either way.
with_proc_kill_nofinally(k) ==
    /\ pc = IF k = "X" THEN "kill_X" ELSE "kill_S"
    /\ \E raises \in BOOLEAN :
        /\ events' = Append(events, <<IF raises THEN "kill_raised" ELSE "kill", k>>)
        /\ exc' = (IF raises THEN "KillError" ELSE exc)
        /\ proc' = [proc EXCEPT ![k] = IF ~raises /\ @ = "running" THEN "exited" ELSE @]
        /\ wopen' = (IF ~raises THEN StreamsAfterExit(k) ELSE wopen)
        /\ pc' = (IF raises THEN AfterScope(k) ELSE IF k = "X" THEN "wait_X" ELSE "wait_S")
    /\ UNCHANGED <<written, pending, tpc, q, streams, out, outFrom, envvars, sessions, display, entered,
                   attempt, spawned, orphans, attr, bound, tried, xlog, slog, eofFail,
                   cAttempt, sleeps>>

with_proc_kill_nosignal(k) ==
    /\ pc = IF k = "X" THEN "kill_X" ELSE "kill_S"
    /\ \E raises \in BOOLEAN :
        /\ events' = Append(events, <<IF raises THEN "kill_raised" ELSE "kill", k>>)
        /\ exc' = (IF raises THEN "KillError" ELSE exc)
        /\ pc' = (IF k = "X" THEN "wait_X" ELSE "wait_S")
    /\ UNCHANGED <<msvars, out, outFrom, envvars, sessions, display, entered, proc,
                   attempt, spawned, orphans, attr, bound, tried, xlog, slog, eofFail,
                   cAttempt, sleeps>>

with_proc_kill(k) ==
    /\ pc = IF k = "X" THEN "kill_X" ELSE "kill_S"
    /\ \E raises \in BOOLEAN :
        /\ events' = Append(events, <<IF raises THEN "kill_raised" ELSE "kill", k>>)
        /\ exc' = (IF raises THEN "KillError" ELSE exc)
        /\ proc' = [proc EXCEPT ![k] = IF ~raises /\ @ = "running" THEN "exited" ELSE @]
        /\ wopen' = (IF ~raises THEN StreamsAfterExit(k) ELSE wopen)
        /\ pc' = (IF k = "X" THEN "wait_X" ELSE "wait_S")
    /\ UNCHANGED <<written, pending, tpc, q, streams, out, outFrom, envvars, sessions, display, entered,
                   attempt, spawned, orphans, attr, bound, tried, xlog, slog, eofFail,
                   cAttempt, sleeps>>

\* p.wait(): blocks until the process has ended, and reaps it.
with_proc_wait_skip(k) ==
    /\ pc = IF k = "X" THEN "wait_X" ELSE "wait_S"
    /\ events' = Append(events, <<"wait", k>>)
    /\ pc' = AfterScope(k)
    /\ UNCHANGED <<msvars, out, outFrom, envvars, sessions, display, exc, entered, attempt, spawned, proc,
                   orphans, attr, bound, tried, xlog, slog, eofFail, cAttempt, sleeps>>

with_proc_wait(k) ==
    /\ pc = IF k = "X" THEN "wait_X" ELSE "wait_S"
    /\ proc[k] # "running"
    /\ proc' = [proc EXCEPT ![k] = "reaped"]
    /\ events' = Append(events, <<"wait", k>>)
    /\ pc' = AfterScope(k)
    /\ UNCHANGED <<msvars, out, outFrom, envvars, sessions, display, exc, entered, attempt, spawned,
                   orphans, attr, bound, tried, xlog, slog, eofFail, cAttempt, sleeps>>

\* A running child process ends by itself.  The caller's thread can tell only
\* where it reads the server's output or waits for the process, so the end is
\* taken there: a process that ended earlier is one that ends as the caller
\* arrives (the steps in between do not read proc or the pipes' write ends).
ProcDiesAt(k) ==
    IF k = "X" THEN {"kill_X", "wait_X"}
    ELSE {"sel_wait", "sel_reap", "kill_S", "wait_S"}

ProcDies(k) ==
    /\ pc \in ProcDiesAt(k)
    /\ proc[k] = "running"
    /\ proc' = [proc EXCEPT ![k] = "exited"]
    /\ wopen' = StreamsAfterExit(k)
    /\ UNCHANGED <<written, pending, tpc, q, streams, out, outFrom, envvars, sessions, pc, display, exc,
                   entered, events, attempt, spawned, orphans, attr, bound, tried, xlog,
                   slog, eofFail, cAttempt, sleeps>>

\* log_output(headless_x.stderr) / log_output(headless_x.stdout): the thread's
\* readline returns '' once the display server has ended; lines it logs before
\* that change no state.
log_output_x(s) ==
    /\ xlog[s] = "run"
    /\ proc["X"] # "running"
    /\ xlog' = [xlog EXCEPT ![s] = "done"]
    /\ UNCHANGED <<msvars, out, outFrom, envvars, sessions, pc, display, exc, entered, events, attempt,
                   spawned, proc, orphans, attr, bound, tried, slog, eofFail, cAttempt,
                   sleeps>>

\* log_output(merged_stream): one iteration of readline's loop in the thread.
log_output_merged ==
    /\ slog = "run"
    /\ \E ret \in Rets :
        /\ readline(ret)
        /\ slog' = (IF ret = EndMarker THEN "done" ELSE "run")
    /\ UNCHANGED <<written, pending, wopen, tpc, out, outFrom, envvars, sessions, pc, display, exc, entered,
                   events, attempt, spawned, proc, orphans, attr, bound, tried, xlog,
                   eofFail, cAttempt, sleeps>>

Init ==
    /\ pc = "x_loop"
    /\ display \in {None} \cup Displays
    /\ occDisplays \in {1 .. n : n \in 0 .. NumDisplays}
    /\ occPorts \in {1 .. n : n \in 0 .. NumPorts}
    /\ jar \in BOOLEAN
    /\ written = [i \in StreamIds |-> <<>>]
    /\ pending = [i \in StreamIds |-> <<>>]
    /\ wopen = [i \in StreamIds |-> FALSE]
    /\ tpc = [i \in StreamIds |-> "none"]
    /\ q = <<>>
    /\ streams = <<>>
    /\ out = <<>>
    /\ outFrom = <<>>
    /\ sessions = <<>>
    /\ exc = "none" /\ entered = {} /\ events = <<>>
    /\ attempt = [k \in Kinds |-> 0]
    /\ spawned = [k \in Kinds |-> 0]
    /\ proc = [k \in Kinds |-> "unspawned"]
    /\ orphans = 0
    /\ attr = [k \in Kinds |-> None]
    /\ bound = [k \in Kinds |-> None]
    /\ tried = [k \in Kinds |-> {}]
    /\ xlog = [s \in {"stderr", "stdout"} |-> "none"]
    /\ slog = "none"
    /\ eofFail = 0
    /\ cAttempt = 0
    /\ sleeps = 0

Next ==
    \/ start_headless_x
    \/ \E k \in Kinds : with_proc_enter(k)
    \/ start_selenium_server
    \/ wait_for_selenium_start
    \/ wait_for_selenium_start_reap
    \/ start_selenium
    \/ with_selenium_yield
    \/ with_body
    \/ with_selenium_stop
    \/ \E k \in Kinds : with_proc_kill(k)
    \/ \E k \in Kinds : with_proc_wait(k)
    \/ \E k \in Kinds : ProcDies(k)
    \/ \E i \in StreamIds : Pusher(i)
    \/ \E s \in {"stderr", "stdout"} : log_output_x(s)
    \/ log_output_merged

Spec == Init /\ [][Next]_vars

\* ---- C1 -----------------------------------------------------------------
\* The lines the consumer got before the first '' (all of out while no '' came).
BeforeEnd ==
    IF \E i \in DOMAIN out : out[i] = EndMarker
    THEN SubSeq(out, 1, (CHOOSE i \in DOMAIN out :
                            out[i] = EndMarker /\ \A j \in 1 .. (i - 1) : out[j] # EndMarker) - 1)
    ELSE out

RECURSIVE SumCount(_, _, _)
SumCount(f, S, v) ==
    IF S = {} THEN 0
    ELSE LET i == CHOOSE j \in S : TRUE IN Count(f[i], v) + SumCount(f, S \ {i}, v)

\* How often line v was written to the streams (only members are written to).
TotalWritten(v) == SumCount(written, StreamIds, v)

\* C1: the readline() results up to the first '' never hold a line more often
\* than the member streams were given it (no duplicate, nothing invented), and
\* once '' has been returned they hold every line exactly as often as it was
\* written (no drop).
C1_ExactlyOnce ==
    pc = "ms" =>
        \A v \in Lines :
            /\ Count(BeforeEnd, v) <= TotalWritten(v)
            /\ (EndMarker \in Range(out)) => Count(BeforeEnd, v) = TotalWritten(v)

\* Three lines over two streams, all read and then the end marker.
C1_Witness ==
    /\ pc = "ms"
    /\ Len(written[1]) >= 1 /\ Len(written[2]) >= 1
    /\ SumLen(written, StreamIds) = 3
    /\ Len(out) = 4 /\ out[4] = EndMarker

\* ---- teardown events ----------------------------------------------------
\* Position of the first event of events that is in E, 0 when there is none.
Pos(E) ==
    IF \E i \in DOMAIN events : events[i] \in E
    THEN CHOOSE i \in DOMAIN events :
            events[i] \in E /\ \A j \in 1 .. (i - 1) : events[j] \notin E
    ELSE 0

KillPos(k) == Pos({<<"kill", k>>, <<"kill_raised", k>>})
WaitPos(k) == Pos({<<"wait", k>>})
StopPos == Pos({<<"stop", "sel">>})

\* The pcs at which the scope of with_proc(k) has been left.
PastScope(k) == IF k = "X" THEN {"done"} ELSE {"kill_X", "wait_X", "done"}

\* ---- C2 -----------------------------------------------------------------
\* C2: once the scope of a with_proc has been left, its process was sent kill and
\* then waited on, in that order; p.wait() never comes before p.kill(); and after
\* a p.kill(), whether it raised or not, the caller is in p.wait() until it has
\* returned.
C2_KillThenWait ==
    \A k \in Kinds :
        /\ (k \in entered /\ pc \in PastScope(k)) =>
                (0 < KillPos(k) /\ KillPos(k) < WaitPos(k))
        /\ WaitPos(k) > 0 => (0 < KillPos(k) /\ KillPos(k) < WaitPos(k))
        /\ (KillPos(k) > 0 /\ WaitPos(k) = 0) => pc = (IF k = "X" THEN "wait_X" ELSE "wait_S")
        /\ Count(events, <<"wait", k>>) <= 1
        /\ Count(events, <<"kill", k>>) + Count(events, <<"kill_raised", k>>) <= 1

\* The Selenium server's kill raised and the server was waited on all the same.
C2_Witness ==
    /\ "S" \in entered
    /\ Pos({<<"kill_raised", "S">>}) > 0
    /\ WaitPos("S") > Pos({<<"kill_raised", "S">>})

\* ---- C3 -----------------------------------------------------------------
\* C3: when a with_selenium call whose body was reached has returned or raised,
\* the display server and the Selenium server have both been reaped and no other
\* child of the call is left unreaped.
C3_SessionReaped ==
    (pc = "done" /\ display = None /\ "body" \in entered) =>
        /\ proc["X"] = "reaped"
        /\ proc["S"] = "reaped"
        /\ orphans = 0

\* A session whose body raised, after the scope was left.
C3_Witness ==
    /\ pc = "done" /\ display = None /\ "body" \in entered
    /\ exc = "BodyError"
    /\ proc["X"] = "reaped" /\ proc["S"] = "reaped"

\* ---- C4 -----------------------------------------------------------------
\* C4: when with_selenium has failed before its body was reached, every child
\* process the call spawned has been reaped.
C4_FailureReaped ==
    (pc = "done" /\ display = None /\ exc # "none" /\ "body" \notin entered) =>
        /\ \A k \in Kinds : proc[k] \in {"unspawned", "reaped"}
        /\ orphans = 0

\* ---- C5 -----------------------------------------------------------------
\* The events with a kill that raised written as a kill.
Ops == [i \in DOMAIN events |->
            <<IF events[i][1] = "kill_raised" THEN "kill" ELSE events[i][1], events[i][2]>>]

\* C5: in a with_selenium call, the Selenium server is killed only after sel.stop()
\* was called (when the body was reached), the display server is killed only after
\* the Selenium server was waited on (when its scope was entered), and a session
\* that reached its body ends with exactly stop, kill and wait of the Selenium
\* server, kill and wait of the display server.
C5_TeardownOrder ==
    display = None =>
        /\ (KillPos("S") > 0 /\ "body" \in entered) =>
                (0 < StopPos /\ StopPos < KillPos("S"))
        /\ (KillPos("X") > 0 /\ "S" \in entered) =>
                (0 < WaitPos("S") /\ WaitPos("S") < KillPos("X"))
        /\ (pc = "done" /\ "body" \in entered) =>
                Ops = << <<"stop", "sel">>, <<"kill", "S">>, <<"wait", "S">>,
                         <<"kill", "X">>, <<"wait", "X">> >>

\* A session that ended normally, all five teardown events done.
C5_Witness ==
    /\ pc = "done" /\ display = None /\ "body" \in entered
    /\ exc = "none"
    /\ Len(events) = 5

\* ---- C6 -----------------------------------------------------------------
\* C6: start_headless_x with an explicit display that is occupied spawns one
\* display server and no second one, and fails with the startup failure.
C6_ExplicitNoRetry ==
    (display # None /\ display \in occDisplays) =>
        /\ spawned["X"] <= 1
        /\ pc = "done" => exc = "StartupFailure"

\* ---- C7 -----------------------------------------------------------------
\* C7: start_headless_x without an explicit display goes round its loop only
\* after a choice that was occupied, and when it returns, the handle is that of a
\* running display server whose display attribute is the display it was spawned
\* on, a free one (so the first free one chosen) that differs from every occupied
\* display tried before; this happens within 10 spawns.
C7_FirstFreeDisplay ==
    display = None =>
        /\ pc = "x_loop" =>
                /\ tried["X"] \subseteq occDisplays
                /\ attempt["X"] > 0 => bound["X"] \in occDisplays
        /\ pc = "x_ret" =>
                /\ proc["X"] = "running"
                /\ attr["X"] = bound["X"]
                /\ attr["X"] \in Displays \ occDisplays
                /\ tried["X"] \subseteq occDisplays
                /\ attr["X"] \notin tried["X"]
                /\ spawned["X"] = attempt["X"] + 1
                /\ spawned["X"] <= MaxAttempts

\* Returned after at least one occupied display was tried.
C7_Witness ==
    /\ pc = "x_ret" /\ display = None
    /\ tried["X"] # {}
    /\ attempt["X"] >= 2
    /\ proc["X"] = "running"

\* ---- C8 -----------------------------------------------------------------
\* C8: when start_selenium_server returns, the process of the handle wrote the
\* ready line, the handle's port attribute is the port on that process's command
\* line, and it is a free port that differs from every port that was reported as
\* in use during the call.
C8_PortOfReadyServer ==
    pc = "sel_ret" =>
        /\ \E i \in {stdout, stderr} : "ready" \in Range(written[i])
        /\ attr["S"] = bound["S"]
        /\ attr["S"] \in Ports \ occPorts
        /\ tried["S"] \subseteq occPorts
        /\ attr["S"] \notin tried["S"]

\* Returned after the first port collided.
C8_Witness ==
    /\ pc = "sel_ret"
    /\ tried["S"] # {}
    /\ attempt["S"] >= 1
    /\ attr["S"] \notin tried["S"]

\* ---- C9 -----------------------------------------------------------------
\* A launcher's call is in progress at these pcs.
InLauncher(k) == IF k = "X" THEN {"x_loop"} ELSE {"sel_loop", "sel_wait", "sel_reap"}

\* C9: a call of start_headless_x or of start_selenium_server spawns at most 10
\* processes; while the call runs its attempt counter never decreases; with 10
\* attempts done the launcher's next step raises the retry-exhausted failure and
\* spawns nothing; and a call that raised it gave no handle to a scope.
C9_RetryCeiling ==
    /\ [](\A k \in Kinds : spawned[k] <= MaxAttempts /\ attempt[k] <= MaxAttempts)
    /\ [](exc = "RetryExhausted" =>
            /\ "S" \notin entered
            /\ \E k \in Kinds : spawned[k] = MaxAttempts /\ attempt[k] = MaxAttempts)
    /\ [][\A k \in Kinds :
            /\ (pc \in InLauncher(k) /\ pc' \in InLauncher(k)) => attempt'[k] >= attempt[k]
            /\ (pc \in {"x_loop", "sel_loop"} /\ pc \in InLauncher(k) /\ pc' # pc
                    /\ attempt[k] = MaxAttempts) =>
                  /\ exc' = "RetryExhausted"
                  /\ pc' = (IF k = "X" THEN "done" ELSE "kill_X")
                  /\ spawned' = spawned]_vars

\* Ten Selenium servers collided and the call raised.
C9_Witness ==
    /\ exc = "RetryExhausted"
    /\ spawned["S"] = MaxAttempts
    /\ attempt["S"] = MaxAttempts
    /\ "X" \in entered

\* ---- C10 ----------------------------------------------------------------
\* C10: once wait_for_selenium_start has read '' from the merged output, no ready
\* or collision line was written by that server, the call has raised (the startup
\* failure, unless a later kill raised), no scope was given a handle, and no
\* further Selenium server is spawned.
C10_EofTerminal ==
    eofFail # 0 =>
        /\ \A i \in StreamIds : Range(written[i]) \subseteq {"other"}
        /\ pc \in {"kill_X", "wait_X", "done"}
        /\ exc \in {"StartupFailure", "KillError"}
        /\ "S" \notin entered
        /\ spawned["S"] = eofFail

\* End of data on the second server, eight attempts left.
C10_Witness ==
    /\ eofFail = 2
    /\ attempt["S"] = 1
    /\ pc = "done"
    /\ exc = "StartupFailure"

\* ---- C11 ----------------------------------------------------------------
\* C11: start_selenium invokes the client's start at most 10 times; every failed
\* invocation has been followed by one sleep of 2 seconds; a successful invocation
\* ends the loop (the next step yields to the body, start is not invoked again);
\* and the call raises its startup failure only with all 10 invocations failed.
C11_ClientRetry ==
    /\ [](cAttempt <= MaxAttempts /\ sleeps = Backoff * cAttempt)
    /\ [](pc = "cli_ret" => cAttempt < MaxAttempts)
    /\ [](exc = "ClientStartupError" => cAttempt = MaxAttempts /\ "body" \notin entered)
    /\ [][/\ pc = "cli_ret" => pc' \in {"cli_ret", "body"}
          /\ (pc = "cli_loop" /\ pc' = "kill_S") =>
                 cAttempt = MaxAttempts /\ exc' = "ClientStartupError"
          /\ (pc = "cli_loop" /\ cAttempt = MaxAttempts) => cAttempt' = cAttempt]_vars

\* sel.start() failed nine times and succeeded the tenth time.
C11_Witness ==
    /\ pc = "cli_ret"
    /\ cAttempt = MaxAttempts - 1
    /\ sleeps = Backoff * (MaxAttempts - 1)

\* ---- Spec2: two with_selenium sessions side by side ---------------------
\* Each of the two sessions is a with_selenium(url) call on a thread (or process) of its own,
\* with display = None or an explicit display; the sessions share the machine's
\* displays and ports.  A display is held by the running display server that got
\* it, a port by the running Selenium server that listens on it; the environment
\* lets a second server have neither.  A session's steps are those of Spec with
\* the MergedStream and the client's retry loop taken in one step each.
SessionIds == {"a", "b"}

\* Displays (k = "X") or ports (k = "S") held by a running server of a session
\* other than s.
Held(s, k) ==
    {sessions[t].bound[k] : t \in {u \in SessionIds \ {s} :
                                      /\ sessions[u].proc[k] = "running"
                                      /\ sessions[u].bound[k] # None}}

S2_frame == UNCHANGED <<msvars, out, outFrom, envvars, sesvars>>

\* One iteration of start_headless_x's loop (or its else clause) in session s.
S2_start_headless_x(s) ==
    LET me == sessions[s] IN
    /\ me.pc = "x_loop"
    /\ IF LoopRuns(me.attempt)
       THEN \E d \in chosen_display(me.display), crashed \in BOOLEAN :
              LET active == d \in Held(s, "X")
                  exited == active \/ crashed
                  o == x_outcome(exited, active)
              IN sessions' = [sessions EXCEPT
                    ![s].attr["X"] = d,
                    ![s].bound["X"] = IF exited THEN None ELSE d,
                    ![s].proc["X"] = IF o = "return"
                                     THEN (IF exited THEN "exited" ELSE "running")
                                     ELSE "reaped",
                    ![s].attempt = IF o = "retry" THEN @ + 1 ELSE 0,
                    ![s].pc = CASE o = "retry" -> "x_loop"
                                [] o = "raise" -> "done"
                                [] o = "return" -> "sel_loop"]
       ELSE sessions' = [sessions EXCEPT ![s].pc = "done"]
    /\ S2_frame

\* One iteration of start_selenium_server's loop in session s up to the call of
\* wait_for_selenium_start (or the loop's else clause).  The server listens on
\* its port unless another server holds it.
S2_start_selenium_server(s) ==
    LET me == sessions[s] IN
    /\ me.pc = "sel_loop"
    /\ jar
    /\ IF LoopRuns(me.attempt)
       THEN \E port \in pick_random_port :
              sessions' = [sessions EXCEPT
                    ![s].attr["S"] = handle_port(port),
                    ![s].bound["S"] = IF port \in Held(s, "S") THEN None ELSE port,
                    ![s].proc["S"] = "running",
                    ![s].pc = "sel_wait"]
       ELSE sessions' = [sessions EXCEPT ![s].pc = "kill_X"]
    /\ S2_frame

\* wait_for_selenium_start in session s, from its first readline() to its return
\* or raise: a server that could not listen reports the collision and exits, the
\* launcher waits for it and tries again; one that listens reports that it has
\* started, or ends without either line.
S2_wait_for_selenium_start(s) ==
    LET me == sessions[s] IN
    /\ me.pc = "sel_wait"
    /\ \E line \in (IF me.bound["S"] = None THEN {"coll"}
                    ELSE IF me.proc["S"] = "running" THEN {"ready", EndMarker}
                    ELSE {EndMarker}) :
         LET o == classify(line)
         IN sessions' = [sessions EXCEPT
               ![s].proc["S"] = CASE o = "retry" -> "reaped"
                                  [] o = "fail" -> "exited"
                                  [] OTHER -> @,
               ![s].attempt = IF o = "retry" THEN @ + 1 ELSE 0,
               ![s].pc = CASE o = "retry" -> "sel_loop"
                           [] o = "fail" -> "kill_X"
                           [] OTHER -> "cli_loop"]
    /\ S2_frame

\* start_selenium in session s: the client started within its ten attempts, or
\* the call raised.
S2_start_selenium(s) ==
    /\ sessions[s].pc = "cli_loop"
    /\ \E ok \in BOOLEAN :
         sessions' = [sessions EXCEPT ![s].pc = IF ok THEN "body" ELSE "kill_S"]
    /\ S2_frame

\* The body of session s and, in the finally clause, sel.stop().
S2_with_body(s) ==
    /\ sessions[s].pc = "body"
    /\ sessions' = [sessions EXCEPT ![s].pc = "kill_S"]
    /\ S2_frame

\* with_proc's finally in session s: p.kill(), which may raise, then p.wait().
S2_with_proc_kill(s, k) ==
    /\ sessions[s].pc = (IF k = "X" THEN "kill_X" ELSE "kill_S")
    /\ \E raises \in BOOLEAN :
         sessions' = [sessions EXCEPT
            ![s].proc[k] = IF ~raises /\ @ = "running" THEN "exited" ELSE @,
            ![s].pc = IF k = "X" THEN "wait_X" ELSE "wait_S"]
    /\ S2_frame

S2_with_proc_wait(s, k) ==
    /\ sessions[s].pc = (IF k = "X" THEN "wait_X" ELSE "wait_S")
    /\ sessions[s].proc[k] # "running"
    /\ sessions' = [sessions EXCEPT ![s].proc[k] = "reaped", ![s].pc = AfterScope(k)]
    /\ S2_frame

\* A running server of session s ends by itself and gives up what it held.
S2_ProcDies(s, k) ==
    /\ sessions[s].proc[k] = "running"
    /\ sessions[s].pc \in (IF k = "X"
                           THEN {"sel_loop", "sel_wait", "cli_loop", "body", "kill_S",
                                 "wait_S", "kill_X", "wait_X"}
                           ELSE {"sel_wait", "cli_loop", "body", "kill_S", "wait_S"})
    /\ sessions' = [sessions EXCEPT ![s].proc[k] = "exited"]
    /\ S2_frame

Init2 ==
    /\ pc = "sessions"
    /\ sessions \in [SessionIds ->
                       {[pc |-> "x_loop", display |-> d, attempt |-> 0,
                         proc |-> [k \in Kinds |-> "unspawned"],
                         attr |-> [k \in Kinds |-> None],
                         bound |-> [k \in Kinds |-> None]] : d \in {None} \cup Displays}]
    /\ written = [i \in StreamIds |-> <<>>]
    /\ pending = [i \in StreamIds |-> <<>>]
    /\ wopen = [i \in StreamIds |-> FALSE]
    /\ tpc = [i \in StreamIds |-> "none"]
    /\ q = <<>>
    /\ streams = <<>>
    /\ out = <<>>
    /\ outFrom = <<>>
    /\ occDisplays = {} /\ occPorts = {} /\ jar = TRUE
    /\ SesIdle

Next2 ==
    \/ \E s \in SessionIds : S2_start_headless_x(s)
    \/ \E s \in SessionIds : S2_start_selenium_server(s)
    \/ \E s \in SessionIds : S2_wait_for_selenium_start(s)
    \/ \E s \in SessionIds : S2_start_selenium(s)
    \/ \E s \in SessionIds : S2_with_body(s)
    \/ \E s \in SessionIds, k \in Kinds : S2_with_proc_kill(s, k)
    \/ \E s \in SessionIds, k \in Kinds : S2_with_proc_wait(s, k)
    \/ \E s \in SessionIds, k \in Kinds : S2_ProcDies(s, k)

Spec2 == Init2 /\ [][Next2]_vars

\* ---- C12 ----------------------------------------------------------------
\* Session s holds the server of kind k: its launcher has returned the handle and
\* the scope of with_proc(k) has not been left.
Holds(s, k) ==
    sessions[s].pc \in (IF k = "X"
                        THEN {"sel_loop", "sel_wait", "cli_loop", "body", "kill_S",
                              "wait_S", "kill_X", "wait_X"}
                        ELSE {"cli_loop", "body", "kill_S", "wait_S"})

HoldsLive(s, k) == Holds(s, k) /\ sessions[s].proc[k] = "running"

\* C12: with sessions running side by side, in no reachable state do two of them
\* hold running display servers whose handles name the same display, or running
\* Selenium servers whose handles name the same port; and the display or port a
\* held running server's handle names is the one that server has.
C12_NoSharedResource ==
    \A k \in Kinds : \A s \in SessionIds :
        HoldsLive(s, k) =>
            /\ sessions[s].attr[k] = sessions[s].bound[k]
            /\ \A t \in SessionIds \ {s} :
                  HoldsLive(t, k) => sessions[t].attr[k] # sessions[s].attr[k]

\* Both sessions are in their bodies, each with a running display server and a
\* running Selenium server, and both had asked for a random display.
C12_Witness ==
    \A s \in SessionIds :
        /\ sessions[s].pc = "body"
        /\ sessions[s].display = None
        /\ HoldsLive(s, "X") /\ HoldsLive(s, "S")

\* ---- C13 ----------------------------------------------------------------
\* The results of readline() that were read from stream i, in the order returned.
FromStream(i) ==
    LET idx == SelectSeq([j \in 1 .. Len(out) |-> j], LAMBDA j : outFrom[j] = i)
    IN [n \in 1 .. Len(idx) |-> out[idx[n]]]

\* C13: the lines readline() has returned from one member stream are, in the
\* order returned, a prefix of what that stream's writer wrote, whatever the
\* interleaving of the stream_pusher threads and the consumer.
C13_PerStreamOrder ==
    /\ Len(outFrom) = Len(out)
    /\ \A i \in StreamIds :
          /\ Len(FromStream(i)) <= Len(written[i])
          /\ FromStream(i) = SubSeq(written[i], 1, Len(FromStream(i)))

\* Two different lines of one stream were returned with a line of the other
\* stream between them.
C13_Witness ==
    /\ Len(out) >= 3
    /\ outFrom[1] = outFrom[3]
    /\ outFrom[2] \notin {outFrom[1], None}
    /\ out[1] # out[3]

\* ---- C14 ----------------------------------------------------------------
\* C14 (as stated): over any sequence of readline() calls on one MergedStream,
\* '' is returned exactly once: never a second time.
C14_EndOnce == Count(out, EndMarker) <= 1

\* C14 (amended): '' is returned only with every member stream Closed and the
\* queue drained; from then on every readline() call returns '' again, once per
\* call, and no call returns a line any more.
C14_EndEveryCall ==
    /\ [](EndMarker \in Range(out) =>
            /\ streams = <<>>
            /\ q = <<>>
            /\ \A i \in StreamIds : tpc[i] # "run" /\ pending[i] = <<>>)
    /\ [](\A j \in 1 .. Len(out) :
            out[j] = EndMarker => \A n \in j .. Len(out) : out[n] = EndMarker)
    /\ [][(streams = <<>> /\ out' # out) => out' = Append(out, EndMarker)]_vars

\* After lines of two streams, two readline() calls in a row returned ''.
C14_Witness ==
    /\ Len(out) >= 4
    /\ out[Len(out)] = EndMarker
    /\ out[Len(out) - 1] = EndMarker
    /\ out[1] # EndMarker
    /\ outFrom[1] # outFrom[2]

\* ---- C15 ----------------------------------------------------------------
\* C15: with SELENIUM_SERVER_JAR absent, with_selenium never spawns a Selenium
\* server and never completes an iteration of start_selenium_server's loop: the
\* launcher's first iteration raises the configuration error, neither the server's
\* scope nor the body is entered, and when the call has ended the display server
\* was killed and then reaped, with the configuration error propagating (unless
\* the display server's kill() itself raised, whose exception then replaces it).
C15_MissingJar ==
    (~jar /\ display = None) =>
        /\ spawned["S"] = 0 /\ attempt["S"] = 0 /\ proc["S"] = "unspawned"
        /\ "S" \notin entered /\ "body" \notin entered
        /\ pc \in {"x_loop", "x_ret", "sel_loop", "kill_X", "wait_X", "done"}
        /\ pc \in {"kill_X", "wait_X"} => "X" \in entered
        /\ pc = "kill_X" => exc = "ConfigurationError"
        /\ (pc = "done" /\ "X" \in entered) =>
              /\ proc["X"] = "reaped"
              /\ 0 < KillPos("X") /\ KillPos("X") < WaitPos("X")
              /\ exc = (IF <<"kill_raised", "X">> \in Range(events)
                        THEN "KillError" ELSE "ConfigurationError")

\* The session ended with the configuration error and the display server reaped.
C15_Witness ==
    /\ ~jar /\ display = None
    /\ pc = "done"
    /\ exc = "ConfigurationError"
    /\ "X" \in entered
    /\ proc["X"] = "reaped"
    /\ spawned["S"] = 0

\* ---- C16 ----------------------------------------------------------------
\* The member streams of the MergedStream, and those still in self.streams.
Members == {i \in StreamIds : tpc[i] # "none"}
Active == Range(streams)

\* C16: a member stream is out of the active list only with its close
\* notification dequeued: its stream_pusher had then read '' (the writer had closed
\* the stream and nothing was left to read), every line written to it has been
\* returned by readline(), and no item of that stream is in the queue any more;
\* the queue never holds an item of a stream behind that stream's
\* close notification; and readline() has returned '' only with the active list
\* empty, every member's writer closed.
C16_ActiveSet ==
    /\ Active \subseteq Members
    /\ \A i \in Members \ Active :
          /\ tpc[i] = "done"
          /\ ~wopen[i]
          /\ pending[i] = <<>>
          /\ \A j \in 1 .. Len(q) : q[j].stream # i
          /\ Count(outFrom, i) = Len(written[i])
    /\ \A j \in 1 .. Len(q) :
          q[j].close => /\ j = Len(q) \/ \A n \in (j + 1) .. Len(q) : q[n].stream # q[j].stream
                        /\ tpc[q[j].stream] = "done"
    /\ EndMarker \in Range(out) =>
          /\ Active = {}
          /\ \A i \in Members : ~wopen[i]

\* One stream was closed and removed while the other is still open and active,
\* and its lines were returned before that.
C16_Witness ==
    /\ Len(streams) = 1
    /\ \E i \in Members \ Active : Len(written[i]) >= 2 /\ Count(outFrom, i) = Len(written[i])
    /\ \E i \in Active : wopen[i]

\* ---- C17 ----------------------------------------------------------------
\* The scope of with_proc(k) has issued p.kill() and it did not raise.
Terminated(k) == <<"kill", k>> \in Range(events)

\* The pcs of the caller's thread after p.kill() of with_proc(k).
PostKill(k) == IF k = "X" THEN {"wait_X", "done"} ELSE {"wait_S", "kill_X", "wait_X", "done"}

\* C17 (as stated): once kill has been issued for a process, no thread reads that
\* process's output streams any more: no log_output thread of the display server
\* and no stream_pusher of the Selenium server takes a step (each step of theirs
\* is a readline() on the process's stdout or stderr).
C17_NoReadsAfterKill ==
    [][/\ Terminated("X") => xlog' = xlog
       /\ Terminated("S") => (tpc' = tpc /\ pending' = pending)]_vars

\* C17 (amended): once kill has been issued for a process, the caller's thread
\* reads nothing more of its output (it is at p.wait() or past the scope); the
\* process has ended and its ends of the pipes are closed, so the reads that its
\* log_output and stream_pusher threads still make return what was written before
\* and then '', and a thread that changes state after the kill can only finish.
C17_ReadsAfterKill ==
    /\ [](\A k \in Kinds : Terminated(k) =>
            /\ pc \in PostKill(k)
            /\ proc[k] # "running"
            /\ k = "S" => \A i \in StreamIds : ~wopen[i])
    /\ [][/\ Terminated("X") => \A s \in DOMAIN xlog : xlog'[s] \in {xlog[s], "done"}
          /\ Terminated("S") => /\ \A i \in StreamIds : tpc'[i] \in {tpc[i], "done"}
                                /\ slog' \in {slog, "done"}]_vars

\* Both servers were killed and reaped, and every reader thread has read its ''.
C17_Witness ==
    /\ Terminated("X") /\ Terminated("S")
    /\ pc = "done"
    /\ \A s \in DOMAIN xlog : xlog[s] = "done"
    /\ \A i \in {stdout, stderr} : tpc[i] = "done"
    /\ slog = "done"

\* ---- C18 ----------------------------------------------------------------
\* The threads that call readline() on the MergedStream of the Selenium server.
MergedConsumers ==
    (IF pc = "sel_wait" THEN {"wait_for_selenium_start"} ELSE {})
        \cup (IF slog = "run" THEN {"log_output"} ELSE {})

\* C18: at most one thread calls readline() on the MergedStream at any time (the
\* caller's thread has left wait_for_selenium_start's loop when the log_output
\* thread runs); a stream_pusher thread runs only for the server's stdout and
\* stderr, one each; and the display server's streams have log_output threads
\* only once the launcher's own reading of them (communicate) is over.
C18_SingleConsumer ==
    /\ Cardinality(MergedConsumers) <= 1
    /\ \A i \in StreamIds : tpc[i] = "run" => i \in {stdout, stderr}
    /\ pc = "x_loop" => \A s \in DOMAIN xlog : xlog[s] = "none"
    /\ slog # "none" => pc \notin {"x_loop", "x_ret", "sel_loop", "sel_wait"}

\* The MergedStream was handed to the log_output thread, which is running, and
\* the caller's thread has returned from wait_for_selenium_start.
C18_Witness ==
    /\ slog = "run"
    /\ pc = "sel_ret"
    /\ \E i \in {stdout, stderr} : tpc[i] = "run"

\* ---- SpecLive: Spec with the threads scheduled fairly --------------------
\* The stream_pusher and log_output threads are threads of the operating system:
\* one whose next step stays possible (its blocking readline() or q.get() can
\* return) eventually takes it.  Nothing is assumed of the caller's thread or of
\* when a process ends by itself.
SpecLive ==
    /\ Spec
    /\ \A i \in StreamIds : WF_vars(Pusher(i))
    /\ \A s \in {"stderr", "stdout"} : WF_vars(log_output_x(s))
    /\ WF_vars(log_output_merged)

\* ---- C19 ----------------------------------------------------------------
\* No stream_pusher and no log_output thread is running.
ThreadsEnded ==
    /\ \A i \in StreamIds : tpc[i] # "run"
    /\ \A s \in DOMAIN xlog : xlog[s] # "run"
    /\ slog # "run"

\* C19: a stream_pusher whose stream is at end-of-stream eventually puts its
\* Close and ends; a log_output thread of the display server eventually ends once
\* the display server has ended; the log_output thread of the MergedStream
\* eventually reads '' and ends once the Selenium server's streams are closed; and
\* once with_selenium (or with_proc) has been left, eventually no reader thread is
\* running, and none starts again.
C19_ReadersEnd ==
    /\ \A i \in StreamIds : (tpc[i] = "run" /\ ~wopen[i]) ~> (tpc[i] # "run")
    /\ \A s \in {"stderr", "stdout"} :
          (xlog[s] = "run" /\ proc["X"] # "running") ~> (xlog[s] = "done")
    /\ (slog = "run" /\ \A i \in StreamIds : ~wopen[i]) ~> (slog # "run")
    /\ (pc = "done") ~> [](pc = "done" /\ ThreadsEnded)

\* The session has been left with both servers reaped; one stream_pusher and one
\* log_output thread of the display server have ended, the other stream_pusher,
\* the other log_output thread and the MergedStream's log_output thread have yet to.
C19_Witness ==
    /\ pc = "done"
    /\ proc["X"] = "reaped" /\ proc["S"] = "reaped"
    /\ tpc[stdout] = "done" /\ tpc[stderr] = "run"
    /\ xlog["stderr"] = "done" /\ xlog["stdout"] = "run"
    /\ slog = "run"

\* ---- C20 ----------------------------------------------------------------
\* C20: a launcher never drops a child that is not reaped: at the head of its
\* loop (a new attempt, or the retry-exhausted raise) the process of its previous
\* attempt, if any, has exited and been reaped; every attempt but the one in
\* progress has been completed by reaping its process; when it returns, the
\* returned process is the one of its last Popen, not reaped; and a running process
\* outside its launcher's call is the one that call returned to a with_proc scope.
C20_OneChild ==
    /\ orphans = 0
    /\ pc = "x_loop" => proc["X"] \in {"unspawned", "reaped"}
    /\ pc = "sel_loop" => proc["S"] \in {"unspawned", "reaped"}
    /\ \A k \in Kinds :
          /\ pc \in InLauncher(k) =>
                spawned[k] = attempt[k] + (IF pc \in {"sel_wait", "sel_reap"} THEN 1 ELSE 0)
          /\ pc = (IF k = "X" THEN "x_ret" ELSE "sel_ret") =>
                /\ proc[k] \in {"running", "exited"}
                /\ spawned[k] = attempt[k] + 1
          /\ proc[k] = "running" =>
                \/ pc \in InLauncher(k) \cup {"x_ret", "sel_ret"}
                \/ k \in entered

\* start_selenium_server returns the server of its third Popen; the two before
\* it collided and were waited for.
C20_Witness ==
    /\ pc = "sel_ret"
    /\ spawned["S"] = 3
    /\ attempt["S"] = 2
    /\ proc["S"] = "running"
    /\ orphans = 0

====
